---- MODULE Spec2Model ----
(***************************************************************************)
(* Build orchestration of the hicstraw extension: setup.py's BuildExt      *)
(* (source build, consent gate, prebuilt fallback) and build_prebuilt.py   *)
(* (the producer that publishes a built binary into prebuilt/).            *)
(*                                                                         *)
(* A state is the working tree (files with their bytes), the position of   *)
(* the running command and its local variables, and the warnings it has    *)
(* emitted so far.  One run = one invocation of `setup.py build_ext` or of *)
(* `build_prebuilt.py`; runs follow each other in the same checkout.       *)
(***************************************************************************)
EXTENDS Integers, Sequences, FiniteSets, TLC

VARIABLES
    fs,         \* the working tree: <<directory, file name>> -> bytes
    fs0,        \* the working tree when the current run started
    run,        \* number of runs started; a source build in run n yields bytes n
    mode,       \* "setup": setup.py build_ext; "producer": build_prebuilt.py
    plat,       \* the host: platform.system(), platform.machine(), sys.version_info
    ct,         \* self.compiler.compiler_type
    accepts,    \* the flags this run's compiler accepts
    pc,         \* position of the running command
    opts,       \* _build_extensions_regular: opts
    link_opts,  \* _build_extensions_regular: link_opts
    flag_i,     \* cpp_flag: index of the candidate being probed
    exc,        \* the exception in flight, "none" when there is none
    log,        \* what the run has done so far: <<kind, argument>> events
    result,     \* "none", "Installed" or "Failed": outcome of build_extensions
    reason,     \* why build_extensions failed
    exit,       \* exit code of the command (-1 while it runs)
    built_ext,  \* build_prebuilt.main: built_ext, NoPath before it is found
    lineage     \* which producer runs the tree has seen (see Lineage)

vars == <<fs, fs0, run, mode, plat, ct, accepts, pc, opts, link_opts, flag_i,
          exc, log, result, reason, exit, built_ext, lineage>>

-----------------------------------------------------------------------------
(* Bounds *)

MaxRuns == 2

-----------------------------------------------------------------------------
(* Hosts *)

Host(s, m, maj, min) == [system |-> s, machine |-> m, major |-> maj, minor |-> min]

Platforms ==
    { Host("Linux", "x86_64", 3, 10),
      Host("Linux", "x86_64", 3, 11),
      Host("Darwin", "arm64", 3, 12),
      Host("Windows", "AMD64", 3, 11),
      Host("CYGWIN_NT-10.0", "x86_64", 3, 9) }

NoPlat == Host("", "", 0, 0)

\* Hosts a file name may have been rendered on: what platform.system(),
\* platform.machine() and sys.version_info report there.
KnownHosts ==
    { Host(s, m, maj, min) :
        s \in {"Linux", "Darwin", "Windows", "CYGWIN_NT-10.0"},
        m \in {"x86_64", "arm64", "AMD64"},
        maj \in {2, 3},
        min \in {1, 10, 11} }

\* str.lower() on the strings the model feeds it.
lower(s) ==
    CASE s = "Linux"          -> "linux"
      [] s = "Windows"        -> "windows"
      [] s = "Darwin"         -> "darwin"
      [] s = "CYGWIN_NT-10.0" -> "cygwin_nt-10.0"
      [] s = "AMD64"          -> "amd64"
      [] s = "Y"              -> "y"
      [] s = "YES"            -> "yes"
      [] s = "N"              -> "n"
      [] s = "No"             -> "no"
      [] s = "NO"             -> "no"
      [] OTHER                -> s

\* The compiler types distutils picks on a host.
CompilerTypes(p) ==
    IF p.system = "Windows" THEN {"msvc", "mingw32"} ELSE {"unix"}

-----------------------------------------------------------------------------
(* File names.  A name is kept in three parts, base \o mid \o ext, so that  *)
(* a glob 'hicstraw*<suffix>' can be decided; PathString is the name itself. *)

FileName(b, m, e) == [base |-> b, mid |-> m, ext |-> e]

PathString(n) == n.base \o n.mid \o n.ext

NoPath == <<"", FileName("", "", "")>>

\* A version string that leaves the minor version out.
python_version_major_only(p) == ToString(p.major)

\* f"{sys.version_info.major}.{sys.version_info.minor}"
python_version(p) == ToString(p.major) \o "." \o ToString(p.minor)

\* setup.py, _use_prebuilt_binary: binary_name
binary_name(p) ==
    FileName("hicstraw",
             "." \o lower(p.system) \o "." \o lower(p.machine)
                 \o ".cp" \o python_version(p) \o "-" \o python_version(p),
             ".so")

\* build_prebuilt.py, get_target_filename
get_target_filename(p) ==
    FileName("hicstraw",
             "." \o lower(p.system) \o "." \o lower(p.machine)
                 \o ".cp" \o python_version(p) \o "-" \o python_version(p),
             IF lower(p.system) = "windows" THEN ".pyd" ELSE ".so")

\* The suffix the host's Python gives an extension module (sysconfig's
\* EXT_SUFFIX), in two parts: the ABI tag and the shared-library extension.
abi_digits(p) == ToString(p.major) \o ToString(p.minor)

soabi(p) ==
    CASE p.system = "Linux"   -> "cpython-" \o abi_digits(p) \o "-" \o p.machine \o "-linux-gnu"
      [] p.system = "Darwin"  -> "cpython-" \o abi_digits(p) \o "-darwin"
      [] p.system = "Windows" -> "cp" \o abi_digits(p) \o "-win_" \o lower(p.machine)
      [] OTHER                -> "cpython-" \o abi_digits(p) \o "-" \o p.machine \o "-cygwin"

shlib_ext(p) ==
    CASE p.system = "Windows"        -> ".pyd"
      [] p.system = "CYGWIN_NT-10.0" -> ".dll"
      [] OTHER                       -> ".so"

EXT_SUFFIX(p) == <<"." \o soabi(p), shlib_ext(p)>>

\* The names the host's import system loads the module `hicstraw` from:
\* 'hicstraw' + one of importlib.machinery.EXTENSION_SUFFIXES.
EXTENSION_SUFFIXES(p) ==
    { EXT_SUFFIX(p), <<".abi3", shlib_ext(p)>>, <<"", shlib_ext(p)>> }

LoaderNames(p) ==
    { FileName("hicstraw", suf[1], suf[2]) : suf \in EXTENSION_SUFFIXES(p) }

\* build_ext.get_ext_filename('hicstraw'): the file a source build writes.
get_ext_filename(p) == FileName("hicstraw", EXT_SUFFIX(p)[1], EXT_SUFFIX(p)[2])

\* self.build_lib
build_lib(p) ==
    "build/lib." \o lower(p.system) \o "-" \o lower(p.machine) \o "-" \o python_version(p)

-----------------------------------------------------------------------------
(* The working tree *)

Put(files, path, bytes) ==
    [x \in (DOMAIN files) \cup {path} |-> IF x = path THEN bytes ELSE files[x]]

exists(files, path) == path \in DOMAIN files

InDir(files, dir) == { x \in DOMAIN files : x[1] = dir }

\* The files of one directory, with their bytes.
DirView(files, dir) == [x \in InDir(files, dir) |-> files[x]]

\* The repository as shipped with the checkout: empty, or holding one artifact.
Shipped ==
    { <<>>,
      [x \in {<<"prebuilt", binary_name(Host("Linux", "x86_64", 3, 10))>>} |-> 0] }

Remove(files, paths) == [x \in (DOMAIN files) \ paths |-> files[x]]

\* What a path holds when it holds no build of the extension: the object code
\* and the executable of the probe program, a directory, a file of the user's.
ObjectCode == -1

Executable == -2

Directory == -3

UserData == -4

isdir(files, path) == exists(files, path) /\ files[path] = Directory

\* tempfile.NamedTemporaryFile('w', suffix='.cpp'): f.name without the suffix.
\* The source lies in the system's temporary directory and is deleted when the
\* with block ends; one name stands for every draw.
NamedTemporaryFile == "tmp8q3xk1zd"

\* compiler.compile([f.name]): the object file of '/tmp/<name>.cpp' is written
\* to 'tmp/<name>.o' under the working directory.
object_filenames(name) == <<"tmp", FileName(name, "", ".o")>>

\* compiler.link_executable(objects, 'test', ...): the executable
test_exe == <<".", FileName("test", "", "")>>

\* Working trees that hold something of the user's before the first run: a file
\* or a directory named 'test', a file or a directory whose name ends in '.o'.
\* The repository holds the shipped artifact.
UserEntries ==
    { <<test_exe, UserData>>,
      <<test_exe, Directory>>,
      <<<<".", FileName("kernel", "", ".o")>>, UserData>>,
      <<<<".", FileName("vendor", "", ".o")>>, Directory>> }

UserTrees ==
    { Put([x \in {<<"prebuilt", binary_name(Host("Linux", "x86_64", 3, 10))>>} |-> 0],
          e[1], e[2]) : e \in UserEntries }

-----------------------------------------------------------------------------
(* Warnings and events *)

Emit(l, kind, arg) == Append(l, <<kind, arg>>)

InLog(kind, arg) == \E i \in 1..Len(log) : log[i] = <<kind, arg>>

Happened(kind) == \E i \in 1..Len(log) : log[i][1] = kind

-----------------------------------------------------------------------------
(* Decisions of the code, one operator each *)

\* BuildExt.c_opts / l_opts, and self.c_opts.get(ct, [])
c_opts(t, p) ==
    CASE t = "msvc" -> <<"/EHsc">>
      [] t = "unix" -> IF p.system = "Darwin"
                       THEN <<"-stdlib=libc++", "-mmacosx-version-min=10.7">>
                       ELSE <<>>
      [] OTHER -> <<>>

l_opts(t, p) ==
    CASE t = "unix" -> IF p.system = "Darwin"
                       THEN <<"-stdlib=libc++", "-mmacosx-version-min=10.7">>
                       ELSE <<>>
      [] OTHER -> <<>>

\* A cpp_flag that tries the oldest standard first.
cpp_flags_oldest_first == <<"-std=c++11", "-std=c++14">>

\* cpp_flag: flags
cpp_flags == <<"-std=c++14", "-std=c++11">>

Flags == {"-std=c++14", "-std=c++11", "-fvisibility=hidden"}

\* has_flag(compiler, flagname): the trial compile succeeds iff the compiler
\* accepts the flag.
has_flag(compiler_accepts, flagname) == flagname \in compiler_accepts

\* build_extensions: `except Exception as e` catches every exception but the
\* BaseException-only ones.
CaughtByExceptException(e) == e \notin {"none", "KeyboardInterrupt", "SystemExit"}

\* A build_extensions that goes to the prompt without the remediation notice.
AfterRegular_without_notice(e) == IF CaughtByExceptException(e) THEN "prompt" ELSE "exit"

\* A build_extensions whose fallback also runs after a successful build.
AfterRegular_always_fallback(e) == "except"

\* build_extensions: what follows _build_extensions_regular.
AfterRegular(e) == IF CaughtByExceptException(e) THEN "except" ELSE "exit"

\* A consent check that takes every answer but yes and the empty one as a
\* decline.
Declined_unless_yes(response) == lower(response) \notin {"", "y", "yes"}

\* A consent check that forgets .lower().
Declined_case_sensitive(response) == response \in {"n", "no"}

\* build_extensions: `if response in ('n', 'no')` on input(...).lower()
Declined(response) == lower(response) \in {"n", "no"}

\* A prompt handler that catches only EOFError.
PromptDefaultsToYes_eof_only(e) == e = "EOFError"

\* build_extensions: `except (EOFError, KeyboardInterrupt)` around the prompt
PromptDefaultsToYes(e) == e \in {"EOFError", "KeyboardInterrupt"}

\* What the user may type, and how reading the answer may end instead.
Answers == {"", "y", "Y", "yes", "YES", "n", "N", "no", "No", "NO", "maybe"}

ReadFailures == {"EOFError", "KeyboardInterrupt"}

\* A lookup that settles for the artifact of another minor version.
prebuilt_path_any_minor(p) ==
    <<"prebuilt", binary_name(Host(p.system, p.machine, p.major, 10))>>

\* An install that writes the artifact back into the repository directory.
prebuilt_dest_into_repository(p) == <<"prebuilt", get_ext_filename(p)>>

\* _use_prebuilt_binary: prebuilt_path, and where it is copied to
prebuilt_path(p) == <<"prebuilt", binary_name(p)>>

prebuilt_dest(p) == <<build_lib(p), binary_name(p)>>

\* build_extension: ext_suffix, and the glob 'hicstraw*<ext_suffix>'
ext_suffix(p) == IF p.system = "Windows" THEN ".pyd" ELSE ".so"

GlobMatches(path, p) == path[2].base = "hicstraw" /\ path[2].ext = ext_suffix(p)

\* Path('.').rglob(...): the files of '.' come first, in directory order (any),
\* then those of the subdirectories; build_extension returns the first.
rglob_first(files, p) ==
    LET top  == { x \in InDir(files, ".") : GlobMatches(x, p) }
        deep == { x \in DOMAIN files : x[1] # "." /\ GlobMatches(x, p) }
    IN  IF top # {} THEN top ELSE deep

\* main: target_path
target_path(p) == <<"prebuilt", get_target_filename(p)>>

\* A link probe that hands the real build the dynamic options whichever trial
\* succeeded.
TrialLinkOpts_always_dynamic(trial) == <<"-lcurl", "-lz">>

\* _build_extensions_regular: link_opts after the trial that succeeded
TrialLinkOpts(trial) ==
    IF trial = "static"
    THEN <<"-DCURL_STATICLIB", "-DZ_STATICLIB", "-lcurl", "-lz">>
    ELSE <<"-lcurl", "-lz">>

\* One trial of the link probe: compiler.compile of the probe program, then
\* compiler.link_executable(objects, 'test').  The compile may fail, the link
\* may fail, an interrupt may arrive while the compiler runs; the link cannot
\* write 'test' where a directory of that name lies.
TrialOutcomes(files) ==
    {"compile failed", "link failed", "interrupted"}
        \cup (IF isdir(files, test_exe) THEN {} ELSE {"ok"})

AfterTrial(files, r) ==
    CASE r = "ok" ->
            Put(Put(files, object_filenames(NamedTemporaryFile), ObjectCode),
                test_exe, Executable)
      [] r = "link failed" ->
            Put(files, object_filenames(NamedTemporaryFile), ObjectCode)
      [] OTHER -> files

\* has_flag: a trial compile that succeeds leaves its object file.
AfterHasFlag(files, ok) ==
    IF ok THEN Put(files, object_filenames(NamedTemporaryFile), ObjectCode) ELSE files

\* The finally block of _build_extensions_regular: os.remove('test') when
\* os.path.exists('test'), then os.remove(obj) for every obj of os.listdir('.')
\* that ends in '.o'.  os.remove of a directory raises OSError and ends the
\* block; the entries listed before it are gone by then.
ListedObjects(files) == { x \in InDir(files, ".") : x[2].ext = ".o" }

CleanupRaises(files) ==
    \/ isdir(files, test_exe)
    \/ \E x \in ListedObjects(files) : isdir(files, x)

CleanupResults(files) ==
    IF isdir(files, test_exe)
    THEN {files}
    ELSE LET rest == Remove(files, {test_exe})
             objs == { x \in ListedObjects(rest) : ~isdir(rest, x) }
         IN  IF \E x \in ListedObjects(rest) : isdir(rest, x)
             THEN { Remove(rest, gone) : gone \in SUBSET objs }
             ELSE { Remove(rest, objs) }

\* Where an interrupt may arrive outside the prompt.
InterruptPoints == {"static trial", "dynamic trial", "has_flag", "build", "copy2"}

-----------------------------------------------------------------------------
(* History kept for the statements about repeated producer runs: "fresh"  *)
(* before any run, the target name while every run so far was a producer  *)
(* run on that one host whose source build succeeded, "mixed" otherwise.  *)

Lineage(old, m, p) ==
    IF m = "producer" /\ old \in {"fresh", PathString(get_target_filename(p))}
    THEN PathString(get_target_filename(p))
    ELSE "mixed"

-----------------------------------------------------------------------------
(* Initial state: a checkout in which nothing has been built yet. *)

Init ==
    /\ fs \in Shipped
    /\ fs0 = fs
    /\ run = 0
    /\ mode = "setup"
    /\ plat = NoPlat
    /\ ct = ""
    /\ accepts = {}
    /\ pc = "idle"
    /\ opts = <<>>
    /\ link_opts = <<>>
    /\ flag_i = 0
    /\ exc = "none"
    /\ log = <<>>
    /\ result = "none"
    /\ reason = ""
    /\ exit = -1
    /\ built_ext = NoPath
    /\ lineage = "fresh"

\* Initial state: a checkout whose working directory holds an entry of the
\* user's.
InitTree ==
    /\ fs \in UserTrees
    /\ fs0 = fs
    /\ run = 0
    /\ mode = "setup"
    /\ plat = NoPlat
    /\ ct = ""
    /\ accepts = {}
    /\ pc = "idle"
    /\ opts = <<>>
    /\ link_opts = <<>>
    /\ flag_i = 0
    /\ exc = "none"
    /\ log = <<>>
    /\ result = "none"
    /\ reason = ""
    /\ exit = -1
    /\ built_ext = NoPath
    /\ lineage = "fresh"

StartRun(m, p, c, a) ==
    /\ pc \in {"idle", "done"}
    /\ run < MaxRuns
    /\ run' = run + 1
    /\ mode' = m
    /\ plat' = p
    /\ ct' = c
    /\ accepts' = a
    /\ fs0' = fs
    /\ pc' = "build_extensions"
    /\ opts' = <<>>
    /\ link_opts' = <<>>
    /\ flag_i' = 0
    /\ exc' = "none"
    /\ log' = IF m = "producer" THEN <<<<"main", "mkdir prebuilt">>>> ELSE <<>>
    /\ result' = "none"
    /\ reason' = ""
    /\ exit' = -1
    /\ built_ext' = NoPath
    /\ lineage' = Lineage(lineage, m, p)
    /\ UNCHANGED fs

\* `python setup.py build_ext` (or an install that runs it) on some host.
RunSetup ==
    \E p \in Platforms : \E c \in CompilerTypes(p) :
        \E a \in (IF c = "unix" THEN SUBSET Flags ELSE {{}}) :
            StartRun("setup", p, c, a)

\* build_prebuilt.main up to build_extension's
\* check_call([sys.executable, 'setup.py', 'build_ext', '--inplace']).
RunProducer ==
    \E p \in Platforms : \E c \in CompilerTypes(p) :
        \E a \in (IF c = "unix" THEN SUBSET Flags ELSE {{}}) :
            StartRun("producer", p, c, a)

\* build_extensions up to the branch on the compiler type in
\* _build_extensions_regular.
EnterBuild ==
    /\ pc = "build_extensions"
    /\ log' = Emit(log, "warn", "Attempting to build from source")
    /\ opts' = IF ct = "msvc"
               THEN Append(c_opts(ct, plat), "/DVERSION_INFO")
               ELSE c_opts(ct, plat)
    /\ link_opts' = l_opts(ct, plat)
    /\ pc' = IF ct = "unix" THEN "static_trial" ELSE "real_build"
    /\ UNCHANGED <<fs, fs0, run, mode, plat, ct, accepts, flag_i, exc, result,
                   reason, exit, built_ext, lineage>>

\* _build_extensions_regular: the static-link trial.
StaticTrial ==
    /\ pc = "static_trial"
    /\ \E r \in TrialOutcomes(fs) :
        /\ fs' = AfterTrial(fs, r)
        /\ CASE r = "ok" ->
                   /\ link_opts' = TrialLinkOpts("static")
                   /\ log' = Emit(log, "trial", "static ok")
                   /\ exc' = exc
                   /\ pc' = "cleanup"
             [] r = "interrupted" ->
                   /\ link_opts' = link_opts
                   /\ log' = Emit(log, "interrupt", "static trial")
                   /\ exc' = "KeyboardInterrupt"
                   /\ pc' = "cleanup"
             [] OTHER ->
                   /\ link_opts' = link_opts
                   /\ log' = Emit(Emit(log, "trial", "static failed"),
                                  "warn", "Static linking failed")
                   /\ exc' = exc
                   /\ pc' = "dynamic_trial"
    /\ UNCHANGED <<fs0, run, mode, plat, ct, accepts, opts, flag_i,
                   result, reason, exit, built_ext, lineage>>

\* _build_extensions_regular: the dynamic-link trial, and on its failure the two
\* handlers the exception passes through.
DynamicTrial ==
    /\ pc = "dynamic_trial"
    /\ \E r \in TrialOutcomes(fs) :
        /\ fs' = AfterTrial(fs, r)
        /\ CASE r = "ok" ->
                   /\ link_opts' = TrialLinkOpts("dynamic")
                   /\ log' = Emit(log, "trial", "dynamic ok")
                   /\ exc' = exc
             [] r = "interrupted" ->
                   /\ link_opts' = link_opts
                   /\ log' = Emit(log, "interrupt", "dynamic trial")
                   /\ exc' = "KeyboardInterrupt"
             [] OTHER ->
                   /\ link_opts' = link_opts
                   /\ log' = Emit(Emit(Emit(log, "trial", "dynamic failed"),
                                       "warn", "Dynamic linking failed"),
                                  "warn", "Compilation test failed")
                   /\ exc' = "Exception"
    /\ pc' = "cleanup"
    /\ UNCHANGED <<fs0, run, mode, plat, ct, accepts, opts, flag_i, result,
                   reason, exit, built_ext, lineage>>

\* _build_extensions_regular: the finally block, then either the exception
\* leaves the function or the version define is appended and cpp_flag starts.
\* An OSError raised by the block replaces the exception in flight.
Cleanup ==
    /\ pc = "cleanup"
    /\ \E tree \in CleanupResults(fs) : fs' = tree
    /\ exc' = IF CleanupRaises(fs) THEN "OSError" ELSE exc
    /\ log' = Emit(log, "finally", IF CleanupRaises(fs) THEN "OSError" ELSE "ok")
    /\ IF exc' # "none"
       THEN /\ pc' = AfterRegular(exc')
            /\ UNCHANGED <<opts, flag_i>>
       ELSE /\ opts' = Append(opts, "-DVERSION_INFO")
            /\ flag_i' = 1
            /\ pc' = "cpp_flag"
    /\ UNCHANGED <<fs0, run, mode, plat, ct, accepts, link_opts,
                   result, reason, exit, built_ext, lineage>>

\* cpp_flag: one turn of `for flag in flags: if has_flag(compiler, flag): return
\* flag`, and the RuntimeError after the last candidate.  An interrupt while
\* the compiler runs passes through has_flag's `except CompileError`.
CppFlagProbe ==
    /\ pc = "cpp_flag"
    /\ LET flag == cpp_flags[flag_i] IN
        \/ /\ log' = Emit(log, "has_flag", flag)
           /\ fs' = AfterHasFlag(fs, has_flag(accepts, flag))
           /\ IF has_flag(accepts, flag)
              THEN /\ opts' = Append(opts, flag)
                   /\ pc' = "vis_flag"
                   /\ UNCHANGED <<flag_i, exc>>
              ELSE IF flag_i < Len(cpp_flags)
              THEN /\ flag_i' = flag_i + 1
                   /\ UNCHANGED <<opts, pc, exc>>
              ELSE /\ exc' = "RuntimeError"
                   /\ pc' = AfterRegular("RuntimeError")
                   /\ UNCHANGED <<opts, flag_i>>
        \/ /\ log' = Emit(log, "interrupt", "has_flag")
           /\ exc' = "KeyboardInterrupt"
           /\ pc' = AfterRegular("KeyboardInterrupt")
           /\ UNCHANGED <<fs, opts, flag_i>>
    /\ UNCHANGED <<fs0, run, mode, plat, ct, accepts, link_opts, result,
                   reason, exit, built_ext, lineage>>

\* _build_extensions_regular: `if has_flag(self.compiler, '-fvisibility=hidden')`
VisFlagProbe ==
    /\ pc = "vis_flag"
    /\ \/ /\ log' = Emit(log, "has_flag", "-fvisibility=hidden")
          /\ fs' = AfterHasFlag(fs, has_flag(accepts, "-fvisibility=hidden"))
          /\ opts' = IF has_flag(accepts, "-fvisibility=hidden")
                     THEN Append(opts, "-fvisibility=hidden")
                     ELSE opts
          /\ pc' = "real_build"
          /\ exc' = exc
       \/ /\ log' = Emit(log, "interrupt", "has_flag")
          /\ exc' = "KeyboardInterrupt"
          /\ pc' = AfterRegular("KeyboardInterrupt")
          /\ UNCHANGED <<fs, opts>>
    /\ UNCHANGED <<fs0, run, mode, plat, ct, accepts, link_opts, flag_i,
                   result, reason, exit, built_ext, lineage>>

\* _build_extensions_regular: build_ext.build_extensions(self) with the chosen
\* options, and on success the rest of build_extensions' try block.
RealBuild ==
    /\ pc = "real_build"
    /\ \E r \in {"ok", "failed", "interrupted"} :
        CASE r = "ok" ->
                /\ fs' = Put(fs, <<build_lib(plat), get_ext_filename(plat)>>, run)
                /\ log' = Emit(Emit(log, "build", "ok"),
                               "warn", "Successfully built from source")
                /\ result' = "Installed"
                /\ exc' = exc
                /\ pc' = AfterRegular("none")
          [] r = "failed" ->
                /\ fs' = fs
                /\ log' = Emit(log, "build", "failed")
                /\ result' = result
                /\ exc' = "CompileError"
                /\ pc' = AfterRegular("CompileError")
          [] OTHER ->
                /\ fs' = fs
                /\ log' = Emit(log, "interrupt", "build")
                /\ result' = result
                /\ exc' = "KeyboardInterrupt"
                /\ pc' = AfterRegular("KeyboardInterrupt")
    /\ UNCHANGED <<fs0, run, mode, plat, ct, accepts, opts, link_opts, flag_i,
                   reason, exit, built_ext, lineage>>

\* build_extensions: `except Exception as e`, the forced remediation notice.
Except ==
    /\ pc = "except"
    /\ log' = Emit(log, "warn", "Build from source failed! Missing required packages")
    /\ exc' = "none"
    /\ pc' = "prompt"
    /\ lineage' = "mixed"
    /\ UNCHANGED <<fs, fs0, run, mode, plat, ct, accepts, opts, link_opts, flag_i,
                   result, reason, exit, built_ext>>

\* build_extensions: the consent prompt.
Prompt ==
    /\ pc = "prompt"
    /\ \/ \E response \in Answers :
            IF Declined(response)
            THEN /\ log' = Emit(Emit(log, "input", response),
                                "warn", "User chose not to use pre-built binary")
                 /\ result' = "Failed"
                 /\ reason' = "UserDeclined"
                 /\ exc' = "Exception"
                 /\ pc' = "exit"
            ELSE /\ log' = Emit(log, "input", response)
                 /\ pc' = "use_prebuilt"
                 /\ UNCHANGED <<result, reason, exc>>
       \/ \E e \in ReadFailures :
            IF PromptDefaultsToYes(e)
            THEN /\ log' = Emit(Emit(log, "input", e),
                                "warn", "Non-interactive environment detected, defaulting to Yes")
                 /\ pc' = "use_prebuilt"
                 /\ UNCHANGED <<result, reason, exc>>
            ELSE /\ log' = Emit(log, "input", e)
                 /\ result' = "Failed"
                 /\ reason' = e
                 /\ exc' = e
                 /\ pc' = "exit"
    /\ UNCHANGED <<fs, fs0, run, mode, plat, ct, accepts, opts, link_opts, flag_i,
                   exit, built_ext, lineage>>

\* build_extensions: self._use_prebuilt_binary() and the handler around it.
\* An interrupt during shutil.copy2 passes through `except Exception`; the
\* destination may or may not have been written by then.
UsePrebuilt ==
    /\ pc = "use_prebuilt"
    /\ \/ /\ exists(fs, prebuilt_path(plat))
          /\ fs' = Put(fs, prebuilt_dest(plat), fs[prebuilt_path(plat)])
          /\ log' = Emit(Emit(Emit(Emit(log,
                      "lookup", PathString(prebuilt_path(plat)[2])),
                      "warn", "Using pre-built binary"),
                      "warn", "Successfully installed using pre-built binary"),
                      "warn", "Note: Using pre-built binary because build from source failed")
          /\ result' = "Installed"
          /\ UNCHANGED <<reason, exc>>
       \/ /\ exists(fs, prebuilt_path(plat))
          /\ fs' \in {fs, Put(fs, prebuilt_dest(plat), fs[prebuilt_path(plat)])}
          /\ log' = Emit(Emit(log,
                      "lookup", PathString(prebuilt_path(plat)[2])),
                      "interrupt", "copy2")
          /\ exc' = "KeyboardInterrupt"
          /\ UNCHANGED <<result, reason>>
       \/ /\ ~exists(fs, prebuilt_path(plat))
          /\ fs' = fs
          /\ log' = Emit(Emit(log,
                      "lookup", PathString(prebuilt_path(plat)[2])),
                      "warn", "ERROR: No pre-built binary available!")
          /\ result' = "Failed"
          /\ reason' = "NoPrebuiltAvailable"
          /\ exc' = "Exception"
    /\ pc' = "exit"
    /\ UNCHANGED <<fs0, run, mode, plat, ct, accepts, opts, link_opts, flag_i,
                   exit, built_ext, lineage>>

\* `setup.py build_ext` ends: exit code 0 iff build_extensions returned.
SetupExit ==
    /\ pc = "exit"
    /\ mode = "setup"
    /\ exit' = IF result = "Installed" THEN 0 ELSE 1
    /\ pc' = "done"
    /\ UNCHANGED <<fs, fs0, run, mode, plat, ct, accepts, opts, link_opts, flag_i,
                   exc, log, result, reason, built_ext, lineage>>

\* The main except handler of build_prebuilt.main: print and sys.exit(1).
ProducerFails(l, e) == Emit(l, "print", "Error building extension: " \o e)

\* build_extension: the end of check_call(... 'build_ext', '--inplace').  When
\* build_extensions returned, --inplace copies the built module from build_lib
\* next to setup.py (an error when build_lib holds no such file); a non-zero
\* exit raises CalledProcessError, which main turns into exit 1.
CheckCall ==
    /\ pc = "exit"
    /\ mode = "producer"
    /\ LET regular == <<build_lib(plat), get_ext_filename(plat)>>
           inplace == <<".", get_ext_filename(plat)>>
       IN  IF result = "Installed" /\ exists(fs, regular)
           THEN /\ fs' = Put(fs, inplace, fs[regular])
                /\ log' = Emit(log, "check_call", "0")
                /\ pc' = "locate"
                /\ exit' = exit
           ELSE /\ fs' = fs
                /\ log' = ProducerFails(Emit(log, "check_call", "1"), "CalledProcessError")
                /\ pc' = "done"
                /\ exit' = 1
    /\ lineage' = IF InLog("build", "ok") THEN lineage ELSE "mixed"
    /\ UNCHANGED <<fs0, run, mode, plat, ct, accepts, opts, link_opts, flag_i,
                   exc, result, reason, built_ext>>

\* build_extension: `for file in Path('.').rglob(...): return file`, else
\* FileNotFoundError.
Locate ==
    /\ pc = "locate"
    /\ IF rglob_first(fs, plat) = {}
       THEN /\ log' = ProducerFails(log, "FileNotFoundError")
            /\ exit' = 1
            /\ pc' = "done"
            /\ built_ext' = built_ext
       ELSE /\ \E f \in rglob_first(fs, plat) : built_ext' = f
            /\ pc' = "copy"
            /\ UNCHANGED <<log, exit>>
    /\ UNCHANGED <<fs, fs0, run, mode, plat, ct, accepts, opts, link_opts, flag_i,
                   exc, result, reason, lineage>>

\* main: shutil.copy2(built_ext, target_path); copying a file onto itself raises
\* SameFileError.
Copy ==
    /\ pc = "copy"
    /\ IF built_ext = target_path(plat)
       THEN /\ fs' = fs
            /\ log' = ProducerFails(log, "SameFileError")
            /\ exit' = 1
       ELSE /\ fs' = Put(fs, target_path(plat), fs[built_ext])
            /\ log' = Emit(log, "print", "Successfully created pre-built binary")
            /\ exit' = 0
    /\ pc' = "done"
    /\ UNCHANGED <<fs0, run, mode, plat, ct, accepts, opts, link_opts, flag_i,
                   exc, result, reason, built_ext, lineage>>

Next ==
    \/ RunSetup
    \/ RunProducer
    \/ EnterBuild
    \/ StaticTrial
    \/ DynamicTrial
    \/ Cleanup
    \/ CppFlagProbe
    \/ VisFlagProbe
    \/ RealBuild
    \/ Except
    \/ Prompt
    \/ UsePrebuilt
    \/ SetupExit
    \/ CheckCall
    \/ Locate
    \/ Copy

Spec == Init /\ [][Next]_vars

\* The same commands in a working tree that holds an entry of the user's.
TreeSpec == InitTree /\ [][Next]_vars

\* The steps of a started command.  A command that has been started keeps
\* running: the interpreter executes the next statement, and every compiler
\* call and every read of the prompt returns or raises.
CommandStep ==
    \/ EnterBuild
    \/ StaticTrial
    \/ DynamicTrial
    \/ Cleanup
    \/ CppFlagProbe
    \/ VisFlagProbe
    \/ RealBuild
    \/ Except
    \/ Prompt
    \/ UsePrebuilt
    \/ SetupExit
    \/ CheckCall
    \/ Locate
    \/ Copy

FairSpec == Spec /\ WF_vars(CommandStep)

-----------------------------------------------------------------------------
(* Vocabulary of the statements below *)

SourceBuildSucceeded == InLog("build", "ok")

Prompted == Happened("input")

LookedUp == Happened("lookup")

DeclineAnswers == {"n", "N", "no", "No", "NO"}

UserDeclinedAnswer == \E i \in 1..Len(log) :
    log[i][1] = "input" /\ log[i][2] \in DeclineAnswers

ReadEndedWithoutAnswer == \E i \in 1..Len(log) :
    log[i][1] = "input" /\ log[i][2] \in {"EOFError", "KeyboardInterrupt"}

\* Nothing in the build output location differs from when the run started.
BuildOutputUntouched ==
    DirView(fs, build_lib(plat)) = DirView(fs0, build_lib(plat))

\* The artifact of the current fingerprint, as the orchestrator renders it.
CurrentArtifact == <<"prebuilt", binary_name(plat)>>

-----------------------------------------------------------------------------
\* C1: once the source build of a run has completed without raising, the run
\* never issues the consent prompt and never looks the repository up, its
\* outcome is Installed, and `setup.py build_ext` exits 0.
C1_SourceSuccessSkipsFallback ==
    SourceBuildSucceeded =>
        /\ ~Prompted
        /\ ~LookedUp
        /\ pc \notin {"except", "prompt", "use_prebuilt"}
        /\ result = "Installed"
        /\ (pc = "done" /\ mode = "setup" => exit = 0)

C1_Witness ==
    /\ pc = "done"
    /\ mode = "setup"
    /\ SourceBuildSucceeded
    /\ result = "Installed"
    /\ exit = 0

\* C2: when the source build failed and the user answered the prompt with a
\* decline, the run is Failed with UserDeclined, the repository was not looked
\* up, nothing was written to the build output location, and the command ends
\* with a non-zero exit code.
C2_DeclineFails ==
    UserDeclinedAnswer =>
        /\ result = "Failed"
        /\ reason = "UserDeclined"
        /\ exc = "Exception"
        /\ ~LookedUp
        /\ BuildOutputUntouched
        /\ pc \in {"exit", "done"}
        /\ (pc = "done" => exit = 1)

C2_Witness ==
    /\ pc = "done"
    /\ InLog("build", "failed")
    /\ InLog("input", "No")
    /\ reason = "UserDeclined"
    /\ exit = 1

\* C3: when the source build failed and reading the answer ended with
\* end-of-input or an interrupt, the decision counts as granted: the run goes
\* on to the prebuilt lookup and is never Failed with UserDeclined.
C3_NoAnswerDefaultsToGranted ==
    ReadEndedWithoutAnswer =>
        /\ reason # "UserDeclined"
        /\ InLog("warn", "Non-interactive environment detected, defaulting to Yes")
        /\ (pc = "use_prebuilt" \/ LookedUp)

C3_Witness ==
    /\ pc = "done"
    /\ InLog("input", "KeyboardInterrupt")
    /\ LookedUp
    /\ result = "Installed"

\* C4: on every host the file name the producer stores an artifact under equals
\* the file name the orchestrator looks up, so that at the orchestrator's lookup
\* an artifact the producer published for this host is found.
C4_ProducerAndOrchestratorAgree ==
    pc = "use_prebuilt" =>
        /\ PathString(get_target_filename(plat)) = PathString(binary_name(plat))
        /\ (exists(fs, target_path(plat)) => exists(fs, prebuilt_path(plat)))

\* C5: when the source build failed, consent was granted and the repository held
\* the artifact of the current fingerprint (and no interrupt arrived), the run is
\* Installed and the build output location holds a file with the artifact's
\* bytes under a name the host's loader accepts for the module.
C5_PrebuiltInstalledUnderLoaderName ==
    (LookedUp /\ exists(fs0, CurrentArtifact) /\ ~Happened("interrupt")) =>
        /\ result = "Installed"
        /\ \E n \in LoaderNames(plat) :
              /\ exists(fs, <<build_lib(plat), n>>)
              /\ fs[<<build_lib(plat), n>>] = fs0[CurrentArtifact]

\* C6: when the source build failed, consent was granted and the repository held
\* no entry named exactly by the current fingerprint (whatever else it held),
\* the run is Failed with NoPrebuiltAvailable, nothing was written to the build
\* output location, and the command ends with a non-zero exit code.
C6_NoExactMatchFails ==
    (LookedUp /\ ~exists(fs0, CurrentArtifact)) =>
        /\ result = "Failed"
        /\ reason = "NoPrebuiltAvailable"
        /\ InLog("warn", "ERROR: No pre-built binary available!")
        /\ BuildOutputUntouched
        /\ pc \in {"exit", "done"}
        /\ (pc = "done" => exit = 1)

\* A host whose fingerprint differs from a stored artifact's in the minor
\* version only: the lookup fails although a close match is there.
C6_Witness ==
    /\ pc = "done"
    /\ mode = "setup"
    /\ plat = Host("Linux", "x86_64", 3, 11)
    /\ LookedUp
    /\ exists(fs0, <<"prebuilt", binary_name(Host("Linux", "x86_64", 3, 10))>>)
    /\ ~exists(fs0, CurrentArtifact)
    /\ reason = "NoPrebuiltAvailable"
    /\ exit = 1

\* The repository entries that differ between the start of the run and now.
RepositoryChanges ==
    { x \in InDir(fs, "prebuilt") \cup InDir(fs0, "prebuilt") :
        ~(exists(fs, x) /\ exists(fs0, x) /\ fs[x] = fs0[x]) }

ProducerSucceeded == mode = "producer" /\ pc = "done" /\ exit = 0

\* C7: when the producer succeeds, the one repository entry it created or
\* overwrote is the one named by the host's fingerprint, and its bytes are those
\* of the binary this run's source build produced.
C7_ProducerPublishesThisBuild ==
    ProducerSucceeded =>
        /\ SourceBuildSucceeded
        /\ RepositoryChanges \subseteq {target_path(plat)}
        /\ exists(fs, target_path(plat))
        /\ fs[target_path(plat)] = run

\* The build outputs the producer's glob could find outside the repository.
MatchingBuildOutputs ==
    { x \in DOMAIN fs : x[1] # "prebuilt" /\ GlobMatches(x, plat) }

\* C8: when the producer's build step reported success and no matching build
\* output exists, the producer fails with ExtensionNotFound (exit 1) and the
\* repository is as it was.
C8_MissingOutputIsAnError ==
    (mode = "producer" /\ pc = "done" /\ InLog("check_call", "0")
        /\ MatchingBuildOutputs = {}) =>
        /\ exit = 1
        /\ InLog("print", "Error building extension: FileNotFoundError")
        /\ RepositoryChanges = {}

\* C9: while the tree has only seen producer runs on one host, each with a
\* successful source build, every such run exits 0 and leaves the entry of that
\* fingerprint holding the bytes of the latest build.
C9_RepublishIsIdempotent ==
    (mode = "producer" /\ pc = "done"
        /\ lineage = PathString(get_target_filename(plat))) =>
        /\ SourceBuildSucceeded
        /\ exit = 0
        /\ exists(fs, target_path(plat))
        /\ fs[target_path(plat)] = run
        /\ RepositoryChanges \subseteq {target_path(plat)}

\* The language-standard candidates, newest first.
NewestFirst == <<"-std=c++14", "-std=c++11">>

\* The candidates probed so far, in the order they were probed.
ProbedStandards ==
    SelectSeq([i \in 1..Len(log) |-> log[i][2]],
              LAMBDA f : f \in {NewestFirst[1], NewestFirst[2]})

SelectedStandards ==
    SelectSeq(opts, LAMBDA f : f \in {NewestFirst[1], NewestFirst[2]})

\* C10: cpp_flag probes the candidates newest first and stops at the first one
\* the compiler accepts, which it returns whether or not a later one is accepted
\* too; when none is accepted the real build is never started and the run goes
\* to the fallback (the remediation notice and the consent prompt).
C10_FirstAcceptedStandardWins ==
    /\ ProbedStandards = SubSeq(NewestFirst, 1, Len(ProbedStandards))
    /\ \A k \in 1..Len(ProbedStandards) :
          (k < Len(ProbedStandards)) => ProbedStandards[k] \notin accepts
    /\ (pc \in {"vis_flag", "real_build"} /\ ct = "unix") =>
          /\ Len(ProbedStandards) >= 1
          /\ ProbedStandards[Len(ProbedStandards)] \in accepts
          /\ SelectedStandards = <<ProbedStandards[Len(ProbedStandards)]>>
    /\ (Len(ProbedStandards) = 2 /\ NewestFirst[2] \notin accepts) =>
          /\ SelectedStandards = <<>>
          /\ ~Happened("build")
          /\ \/ (pc = "except" /\ exc = "RuntimeError")
             \/ InLog("warn", "Build from source failed! Missing required packages")

\* Both standards are accepted and the newest was selected without probing the
\* older one.
C10_Witness ==
    /\ pc = "real_build"
    /\ accepts = Flags
    /\ ProbedStandards = <<"-std=c++14">>
    /\ SelectedStandards = <<"-std=c++14">>

\* No standard is accepted and the run has reached the consent prompt.
C10_WitnessNone ==
    /\ pc = "prompt"
    /\ ProbedStandards = NewestFirst
    /\ accepts \cap {"-std=c++14", "-std=c++11"} = {}

-----------------------------------------------------------------------------
Interrupted == Happened("interrupt")

\* The build command (`setup.py build_ext`, with --inplace when the producer
\* runs it) has ended, and its exit code.
BuildCommandEnded ==
    \/ (mode = "setup" /\ pc = "done")
    \/ (mode = "producer" /\ Happened("check_call"))

BuildCommandExit ==
    IF mode = "setup" THEN exit
    ELSE IF InLog("check_call", "0") THEN 0 ELSE 1

\* C11: a run of the build command whose compiler calls and prompt read return
\* always has a next step until it has ended; when it has ended, build_extensions
\* is in exactly one of Installed and Failed, the command's exit code is 0
\* exactly when it is Installed, and Failed comes with UserDeclined or
\* NoPrebuiltAvailable only.
C11_EndsInstalledOrFailed ==
    ~Interrupted =>
        /\ (pc \notin {"idle", "done"} => ENABLED CommandStep)
        /\ BuildCommandEnded =>
              /\ result \in {"Installed", "Failed"}
              /\ (BuildCommandExit = 0 <=> result = "Installed")
              /\ (result = "Failed" => reason \in {"UserDeclined", "NoPrebuiltAvailable"})

\* C11 for the command as `setup.py build_ext` runs it, without --inplace.
C11_PlainBuildCommand ==
    (~Interrupted /\ mode = "setup") => C11_EndsInstalledOrFailed

\* C11, termination: every started run ends.
C11_Terminates == (pc = "build_extensions") ~> (pc = "done")

\* C12: from the start of build_extensions on, through the link probe's cleanup
\* and the prebuilt install, and after it has ended, the repository directory
\* is as it was when the run started: no entry created, overwritten or deleted.
\* (In a producer run this covers the run up to the producer's own copy.)
C12_OrchestratorLeavesRepository ==
    (mode = "setup" \/ pc # "done") => RepositoryChanges = {}

\* The probe was cleaned up, the artifact was installed from a repository that
\* held it, and the command has ended.
C12_Witness ==
    /\ mode = "setup"
    /\ pc = "done"
    /\ Happened("finally")
    /\ LookedUp
    /\ result = "Installed"
    /\ exists(fs, prebuilt_dest(plat))
    /\ exists(fs0, CurrentArtifact)

\* C13: an answer read at the prompt declines exactly when, lower-cased, it is
\* 'n' or 'no' (n, N, no, No, NO): then the run is Failed with UserDeclined and
\* the repository is not looked up.  Every other answer - '', y, Y, yes, YES, and
\* anything else - grants: the run goes on to the prebuilt lookup.
C13_DeclineIsLowerCasedNOrNo ==
    \A i \in 1..Len(log) :
        (log[i][1] = "input" /\ log[i][2] \in Answers) =>
            IF log[i][2] \in DeclineAnswers
            THEN /\ reason = "UserDeclined"
                 /\ InLog("warn", "User chose not to use pre-built binary")
                 /\ ~LookedUp
                 /\ pc \in {"exit", "done"}
            ELSE /\ reason # "UserDeclined"
                 /\ ~InLog("warn", "User chose not to use pre-built binary")
                 /\ (pc = "use_prebuilt" \/ LookedUp)

\* An answer that is neither yes nor no was read and the lookup followed.
C13_Witness ==
    /\ InLog("input", "maybe")
    /\ LookedUp
    /\ result = "Installed"

\* C14: the file name the orchestrator renders at its lookup, and the one the
\* producer renders at its copy, is determined by the host's operating system,
\* architecture and runtime major and minor version: a host with the same four
\* values renders the same name, and a host that differs in any of them renders
\* a different name.
C14_FilenameDeterminedByFingerprint ==
    /\ pc = "use_prebuilt" =>
          LET mine == PathString(binary_name(plat))
          IN  \A q \in KnownHosts \cup Platforms :
                  (q = plat) <=> (PathString(binary_name(q)) = mine)
    /\ pc = "copy" =>
          LET mine == PathString(get_target_filename(plat))
          IN  \A q \in KnownHosts \cup Platforms :
                  (q = plat) <=> (PathString(get_target_filename(q)) = mine)

\* A lookup on a host that differs from a stored artifact's host in the minor
\* version only.
C14_Witness ==
    /\ pc = "use_prebuilt"
    /\ plat = Host("Linux", "x86_64", 3, 11)
    /\ exists(fs, <<"prebuilt", binary_name(Host("Linux", "x86_64", 3, 10))>>)
    /\ ~exists(fs, prebuilt_path(plat))

\* Every occurrence of event b in the log has an occurrence of event a before it.
Precedes(a, b) ==
    \A j \in 1..Len(log) : log[j] = b => \E i \in 1..(j - 1) : log[i] = a

StaticFailed == <<"trial", "static failed">>

DynamicRan ==
    \/ pc = "dynamic_trial"
    \/ InLog("trial", "dynamic ok")
    \/ InLog("trial", "dynamic failed")
    \/ InLog("interrupt", "dynamic trial")

BothTrialsFailed == InLog("trial", "static failed") /\ InLog("trial", "dynamic failed")

StaticLinkOptions == <<"-DCURL_STATICLIB", "-DZ_STATICLIB", "-lcurl", "-lz">>

DynamicLinkOptions == <<"-lcurl", "-lz">>

\* C15: on a unix toolchain the static trial runs first and the dynamic trial
\* only after the static one failed; the real build gets the link options of
\* the first trial that succeeded; when both trials failed, the real build (and
\* the flag probing before it) is never started, the diagnostics of both trials
\* were emitted, static before dynamic, and the run is on its way to the consent
\* prompt.
C15_StaticThenDynamic ==
    /\ DynamicRan => InLog("trial", "static failed") /\ ~InLog("trial", "static ok")
    /\ Precedes(StaticFailed, <<"trial", "dynamic ok">>)
    /\ Precedes(StaticFailed, <<"trial", "dynamic failed">>)
    /\ (ct = "unix" /\ (pc = "real_build" \/ Happened("build"))) =>
          IF InLog("trial", "static ok")
          THEN link_opts = StaticLinkOptions
          ELSE InLog("trial", "dynamic ok") /\ link_opts = DynamicLinkOptions
    /\ BothTrialsFailed =>
          /\ ~Happened("build")
          /\ ~Happened("has_flag")
          /\ pc \notin {"cpp_flag", "vis_flag", "real_build"}
          /\ InLog("warn", "Static linking failed")
          /\ InLog("warn", "Dynamic linking failed")
          /\ Precedes(<<"warn", "Static linking failed">>,
                      <<"warn", "Dynamic linking failed">>)
          /\ \/ pc \in {"cleanup", "except"}
             \/ InLog("warn", "Build from source failed! Missing required packages")

\* The static trial failed, the dynamic one succeeded, and the real build is
\* about to start with the dynamic options.
C15_Witness ==
    /\ pc = "real_build"
    /\ InLog("trial", "static failed")
    /\ InLog("trial", "dynamic ok")
    /\ link_opts = DynamicLinkOptions

\* Both trials have failed and the consent prompt is next.
C15_WitnessBothFailed ==
    /\ pc = "prompt"
    /\ BothTrialsFailed

Remediation == <<"warn", "Build from source failed! Missing required packages">>

NoStandardAccepted ==
    Len(ProbedStandards) = 2 /\ ProbedStandards[2] \notin accepts

RealCompileFailed == InLog("build", "failed")

\* C16: whenever the source build stage has failed - no language standard was
\* accepted, both link trials failed, or the real sources failed to compile -
\* the remediation notice is emitted before the consent prompt is issued, and
\* the consent prompt is issued before the repository is looked up.
C16_NoticeThenPromptThenLookup ==
    /\ (NoStandardAccepted \/ BothTrialsFailed \/ RealCompileFailed) =>
          \/ pc \in {"cleanup", "except"}
          \/ log[Len(log)] = Remediation
          \/ (InLog(Remediation[1], Remediation[2]) /\ (pc = "prompt" \/ Prompted))
    /\ pc = "prompt" => InLog(Remediation[1], Remediation[2]) /\ ~Prompted /\ ~LookedUp
    /\ pc = "use_prebuilt" => Prompted /\ ~LookedUp
    /\ \A j \in 1..Len(log) :
          /\ log[j][1] = "input" => \E i \in 1..(j - 1) : log[i] = Remediation
          /\ log[j][1] = "lookup" => \E i \in 1..(j - 1) : log[i][1] = "input"

\* The real sources failed to compile, the prompt was answered and the
\* repository has been looked up.
C16_Witness ==
    /\ pc = "exit"
    /\ RealCompileFailed
    /\ Prompted
    /\ LookedUp

\* The same after a link probing failure and after a flag probing failure.
C16_WitnessLink == pc = "exit" /\ BothTrialsFailed /\ LookedUp

C16_WitnessFlags == pc = "exit" /\ NoStandardAccepted /\ LookedUp

\* The events that record a failure: a flag probe the compiler rejected, a
\* failed link trial, a failed compile of the real sources, a lookup that found
\* no artifact.
FailureEvent(e) ==
    \/ (e[1] = "has_flag" /\ e[2] \notin accepts)
    \/ e \in {<<"trial", "static failed">>, <<"trial", "dynamic failed">>,
              <<"build", "failed">>}
    \/ (e[1] = "lookup" /\ ~exists(fs0, CurrentArtifact))

\* C17: every failure, recovered or not, is followed by a diagnostic before the
\* pipeline does anything else: the event after a failure is a warning.
C17_FailureThenDiagnostic ==
    \A i \in 1..(Len(log) - 1) :
        FailureEvent(log[i]) => log[i + 1][1] = "warn"

\* C17 without the flag probes: the failures that the code does report.
C17_ReportedFailures ==
    \A i \in 1..(Len(log) - 1) :
        (FailureEvent(log[i]) /\ log[i][1] # "has_flag") => log[i + 1][1] = "warn"

InterruptedAt(points) ==
    \E i \in 1..Len(log) : log[i][1] = "interrupt" /\ log[i][2] \in points

\* C18: an interrupt is absorbed only at the consent prompt, where it counts as
\* a grant.  An interrupt that arrives during capability probing or the source
\* build ends the run: no remediation notice, no consent prompt, no lookup, no
\* prebuilt artifact installed, a non-zero exit.  An interrupt that arrives
\* during the prebuilt install ends the run too: it is not Installed and exits
\* non-zero.
C18_InterruptAbsorbedOnlyAtPrompt ==
    /\ InLog("input", "KeyboardInterrupt") =>
          /\ InLog("warn", "Non-interactive environment detected, defaulting to Yes")
          /\ reason # "UserDeclined"
          /\ (pc = "use_prebuilt" \/ LookedUp)
    /\ InterruptedAt(InterruptPoints \ {"copy2"}) =>
          /\ pc \in {"cleanup", "exit", "done"}
          /\ exc = "KeyboardInterrupt"
          /\ ~InLog(Remediation[1], Remediation[2])
          /\ ~Prompted
          /\ ~LookedUp
          /\ result = "none"
          /\ (exists(fs, prebuilt_dest(plat)) => exists(fs0, prebuilt_dest(plat)))
          /\ (pc = "done" => exit = 1)
    /\ InterruptedAt({"copy2"}) =>
          /\ pc \in {"exit", "done"}
          /\ exc = "KeyboardInterrupt"
          /\ result = "none"
          /\ ~InLog("warn", "Successfully installed using pre-built binary")
          /\ (pc = "done" => exit = 1)

\* No probe is running: the link probe (trials and cleanup) is over or was never
\* started, and has_flag is one step.
NoProbeRunning ==
    pc \notin {"idle", "build_extensions", "static_trial", "dynamic_trial", "cleanup"}

\* The path holds what it held when the run started, or nothing as then.
AsAtStart(path) ==
    IF exists(fs0, path)
    THEN exists(fs, path) /\ fs[path] = fs0[path]
    ELSE ~exists(fs, path)

\* C19: once a probe is over - whether it succeeded, failed or was left by an
\* exception - nothing it created is left: no object file, no test executable
\* (the temporary source lies outside the tree and is deleted by its with
\* block).  In particular this holds when the run has ended.
C19_ProbesLeaveNothing ==
    NoProbeRunning =>
        /\ AsAtStart(object_filenames(NamedTemporaryFile))
        /\ AsAtStart(test_exe)

\* C19 for the test executable alone.
C19_TestExecutableRemoved == NoProbeRunning => ~exists(fs, test_exe)

LinkProbeSucceeded == InLog("trial", "static ok") \/ InLog("trial", "dynamic ok")

\* C20: after the cleanup of the link probe, every entry that was in the working
\* directory before the run - one named 'test' or ending in '.o' included - is
\* still there with the content it had, and a link probe that succeeded is not
\* made a failure by the cleanup.
C20_CleanupSparesWhatWasThere ==
    Happened("finally") =>
        /\ \A e \in UserEntries : exists(fs0, e[1]) => AsAtStart(e[1])
        /\ LinkProbeSucceeded => InLog("finally", "ok")

\* The two halves of C20, each on its own.
C20_EntriesKept ==
    Happened("finally") => \A e \in UserEntries : exists(fs0, e[1]) => AsAtStart(e[1])

C20_SuccessStaysSuccess ==
    (Happened("finally") /\ LinkProbeSucceeded) => InLog("finally", "ok")

====
